---- MODULE Spec2Model ----
(***************************************************************************)
(* A model of aces_ocio/create_aces_colorspaces.py: the assembly of the    *)
(* ACES colorspaces (create_colorspaces and the builders it calls), the    *)
(* LUT output directory and the renderer invocations the builders make.    *)
(*                                                                         *)
(* A string is a sequence of tokens.  The strings that are compared or     *)
(* sanitized (registry values, shaper names) are sequences of one-char     *)
(* tokens; the literal parts of a format string are one token each.        *)
(***************************************************************************)
EXTENDS Integers, Sequences, FiniteSets, TLC

\* ------------------------------------------------------------------ bounds

\* The largest look registry and output registry that are enumerated.
MaxLmts == 2
MaxOdts == 2

\* ----------------------------------------------------------------- strings

\* ord() of the characters the enumerated inputs are made of (ASCII).
Ord(c) ==
    CASE c = " " -> 32
      [] c = "/" -> 47
      [] c = "2" -> 50
      [] c = "A" -> 65
      [] c = "B" -> 66
      [] c = "S" -> 83
      [] c = "d" -> 100
      [] c = "p" -> 112
      [] c = "q" -> 113
      [] c = "r" -> 114
      [] c = "u" -> 117
      [] c = "v" -> 118
      [] OTHER -> 0

Cmp(x, y) == IF x < y THEN -1 ELSE IF x > y THEN 1 ELSE 0

\* cmp() of two Python 2 str values: lexicographic, a proper prefix first.
RECURSIVE StrCmp(_, _)
StrCmp(a, b) ==
    IF a = <<>> /\ b = <<>> THEN 0
    ELSE IF a = <<>> THEN -1
    ELSE IF b = <<>> THEN 1
    ELSE IF Ord(Head(a)) # Ord(Head(b)) THEN Cmp(Ord(Head(a)), Ord(Head(b)))
    ELSE StrCmp(Tail(a), Tail(b))

\* The filesystem-unsafe characters sanitize_path replaces.
UnsafeChars == {" ", "(", ")"}

\* utilities.sanitize_path: every unsafe character becomes an underscore.
sanitize_path(path) ==
    [i \in DOMAIN path |-> IF path[i] \in UnsafeChars THEN "_" ELSE path[i]]

\* utilities.compact, kept uninterpreted: the result is a term over its argument.
compact(string) == <<"compact(">> \o string \o <<")">>

\* ------------------------------------------------------------ dictionaries

\* The keys of a registry entry, ranked as Python 2 orders the key strings.
KeyRank(k) ==
    CASE k = "legalRange" -> 1
      [] k = "transformCTL" -> 2
      [] k = "transformCTLInverse" -> 3
      [] k = "transformLUT" -> 4
      [] k = "transformLUTInverse" -> 5
      [] k = "transformUserName" -> 6
      [] k = "transformUserNamePrefix" -> 7

\* cmp() of the two values a key has: legalRange is an int, the rest are str.
ValCmp(k, x, y) == IF k = "legalRange" THEN Cmp(x, y) ELSE StrCmp(x, y)

DiffKeys(a, b) == {k \in DOMAIN a : k \notin DOMAIN b \/ a[k] # b[k]}

\* dictobject.c characterize(): the smallest key of a whose value b lacks or differs on.
Characterize(a, b) ==
    IF DiffKeys(a, b) = {} THEN "None"
    ELSE CHOOSE k \in DiffKeys(a, b) : \A j \in DiffKeys(a, b) : KeyRank(k) <= KeyRank(j)

\* Python 2 dict_compare: the lengths, then the smallest differing keys, then their values.
DictCmp(a, b) ==
    IF Cardinality(DOMAIN a) # Cardinality(DOMAIN b)
    THEN Cmp(Cardinality(DOMAIN a), Cardinality(DOMAIN b))
    ELSE LET adiff == Characterize(a, b)
             bdiff == Characterize(b, a)
         IN IF adiff = "None" THEN 0
            ELSE IF Cmp(KeyRank(adiff), KeyRank(bdiff)) # 0
                 THEN Cmp(KeyRank(adiff), KeyRank(bdiff))
                 ELSE ValCmp(adiff, a[adiff], b[bdiff])

\* The key of sorted(info.iteritems(), key=lambda x: x[1]): the entry's values.
SortKeyCmp(a, b) == DictCmp(a, b)

\* Stable insertion of item x into the sorted list s (x came after every item of s).
RECURSIVE InsertSorted(_, _)
InsertSorted(s, x) ==
    IF s = <<>> THEN <<x>>
    ELSE IF SortKeyCmp(x[2], s[Len(s)][2]) < 0
         THEN Append(InsertSorted(SubSeq(s, 1, Len(s) - 1), x), s[Len(s)])
         ELSE Append(s, x)

\* sorted(): stable, on the key of each (identifier, values) item.
RECURSIVE sorted(_)
sorted(items) ==
    IF items = <<>> THEN <<>>
    ELSE InsertSorted(sorted(SubSeq(items, 1, Len(items) - 1)), items[Len(items)])

\* ---------------------------------------------------------------- mappings

EmptyDict == [k \in {} |-> 0]

\* d[k] = v on a Python dict: the key is added or its value replaced.
SetItem(d, k, v) == [x \in DOMAIN d \cup {k} |-> IF x = k THEN v ELSE d[x]]

\* ------------------------------------------------------------------ inputs

\* The display names, CTL and LUT paths the enumerated registries draw from.
UserNames == {<<"A">>, <<"B">>}
CTLs == {<<"p">>, <<"q">>}

\* The identifier of the i-th look entry (create_lmts never reads it).
LmtId(i) == <<"lmt", i>>

\* The identifiers create_odts generates a legal and a full variant for.
DualRangeODTs ==
    {"Academy.Rec2020_100nits_dim.a1.0.0",
     "Academy.Rec709_100nits_dim.a1.0.0",
     "Academy.Rec709_D60sim_100nits_dim.a1.0.0"}

\* The identifiers the i-th output entry may have: a dual-range one or, for the
\* first two entries, another.
OdtIds(i) ==
    IF i = 1 THEN {"Academy.Rec709_100nits_dim.a1.0.0", "Academy.P3D60_48nits.a1.0.0"}
    ELSE IF i = 2
    THEN {"Academy.Rec2020_100nits_dim.a1.0.0", "Academy.P3DCI_48nits.a1.0.0"}
    ELSE IF i = 3
    THEN {"Academy.Rec709_D60sim_100nits_dim.a1.0.0"}
    ELSE {<<"Academy.Other", i>>}

\* A look entry: a display name and, optionally, a forward and an inverse CTL.
LmtValues(n, K, c) ==
    [k \in {"transformUserName"} \cup K |->
        CASE k = "transformUserName" -> n
          [] k = "transformCTL" -> c
          [] k = "transformCTLInverse" -> <<"r">>]

LmtDicts ==
    {LmtValues(n, K, c) : n \in UserNames,
                          K \in {{}, {"transformCTL"}, {"transformCTLInverse"}},
                          c \in CTLs}
    \cup {LmtValues(<<"A">>, {"transformCTL", "transformCTLInverse"}, <<"p">>)}

\* An output entry: a display name and prefix and, optionally, a CTL or a pre-built
\* LUT for each direction and a legalRange.
OdtValues(n, K) ==
    [k \in {"transformUserName", "transformUserNamePrefix"} \cup K |->
        CASE k = "transformUserName" -> n
          [] k = "transformUserNamePrefix" -> <<"A", "B">>
          [] k = "transformCTL" -> <<"p">>
          [] k = "transformCTLInverse" -> <<"r">>
          [] k = "transformLUT" -> <<"d", "/", "u">>
          [] k = "transformLUTInverse" -> <<"d", "/", "v">>
          [] k = "legalRange" -> 0]

\* The optional keys an enumerated output entry has.
OdtShapes ==
    {{},
     {"transformCTL"},
     {"transformCTL", "transformCTLInverse"},
     {"transformCTLInverse", "legalRange"}}

OdtDicts ==
    {OdtValues(n, K) : n \in UserNames, K \in OdtShapes}
    \cup {OdtValues(<<"A">>, {"transformLUT", "transformCTL"}),
          OdtValues(<<"B">>, {"transformCTL", "transformLUTInverse"})}

\* The registries of at most max entries, as the (identifier, values) items that
\* iteritems() yields, in the order it yields them.
LmtRegistries(max) ==
    UNION {{[i \in 1..n |-> <<LmtId(i), ds[i]>>] : ds \in [1..n -> LmtDicts]} : n \in 0..max}

OdtRegistries(max) ==
    UNION {{[i \in 1..n |-> <<is[i], ds[i]>>] :
               is \in {s \in [1..n -> UNION {OdtIds(j) : j \in 1..n}] :
                          \A j \in 1..n : s[j] \in OdtIds(j)},
               ds \in [1..n -> OdtDicts]} : n \in 0..max}

\* The shaper names: one that sanitize_path leaves alone and one it changes.
ShaperNames == {<<"S">>, <<"S", " ", "2">>}

LmtShaperName == <<"LMT", " ", "Shaper">>

\* The LUT directories a run may start from: empty, or holding files under the
\* unsanitized names of the shaper LUTs.
InitialDirs(name) ==
    {{}, {LmtShaperName \o <<"_to_aces.spi1d">>, name \o <<"_to_aces.spi1d">>}}

\* ---------------------------------------------------------------- renderer

\* The world a builder acts on: the files of lut_directory and the invocations of
\* the renderer and of write_SPI_1d made so far, each with the path it targets,
\* the CTLs and parameters it was given and whether the path existed just before.
Invocation(fn, path, ctls, params, w) ==
    [fn |-> fn, path |-> path, ctls |-> ctls, params |-> params,
     existed |-> path \in w.files]

\* The renderer (and write_SPI_1d) called on a path: it writes the file.
Invoke(w, fn, path, ctls, params) ==
    [files |-> w.files \cup {path},
     renders |-> Append(w.renders, Invocation(fn, path, ctls, params, w))]

generate_1d_LUT_from_CTL(w, path, ctls, params) ==
    Invoke(w, "generate_1d_LUT_from_CTL", path, ctls, params)

generate_3d_LUT_from_CTL(w, path, ctls, params) ==
    Invoke(w, "generate_3d_LUT_from_CTL", path, ctls, params)

write_SPI_1d(w, path) == Invoke(w, "write_SPI_1d", path, <<>>, EmptyDict)

\* os.path.join(aces_CTL_directory, ...): the CTL directory, then the parts.
CTLPath(parts) == <<"<aces_CTL_directory>">> \o parts

\* -------------------------------------------------------------- colorspaces

LutFile(path, interpolation, direction) ==
    [type |-> "lutFile", path |-> path, interpolation |-> interpolation,
     direction |-> direction]

Matrix(matrix, direction) ==
    [type |-> "matrix", matrix |-> matrix, direction |-> direction]

\* utilities.ColorSpace with the attributes the builders set.
ColorSpace(name, description, aliases, equality_group, family, bit_depth, to_ref, from_ref) ==
    [name |-> name, description |-> description, aliases |-> aliases,
     equality_group |-> equality_group, family |-> family, is_data |-> FALSE,
     bit_depth |-> bit_depth,
     to_reference_transforms |-> to_ref, from_reference_transforms |-> from_ref]

\* What a builder call leaves: the ColorSpace, the world, the exception raised
\* ("none" when it returned) and, for the builders handed a shaper bundle, the
\* parameter mapping of the bundle, which the caller shares.
Built(cs, w, exc, params) == [cs |-> cs, w |-> w, exc |-> exc, params |-> params]

NoColorSpace == ColorSpace(<<>>, <<>>, <<>>, <<>>, "", "", <<>>, <<>>)

create_aces ==
    [name |-> <<"ACES2065-1">>,
     description |-> <<"The Academy Color Encoding System reference color space">>,
     aliases |-> <<"lin_ap0", "aces">>, equality_group |-> <<>>, family |-> "ACES",
     is_data |-> FALSE, bit_depth |-> "default",
     to_reference_transforms |-> <<>>, from_reference_transforms |-> <<>>]

create_ACEScc(w) ==
    LET name == <<"ACEScc">>
        lut == sanitize_path(name \o <<"_to_ACES.spi1d">>)
        ctls == <<CTLPath(<<"ACEScc", "ACEScsc.ACEScc_to_ACES.a1.0.0.ctl">>),
                  CTLPath(<<"ACEScg", "ACEScsc.ACES_to_ACEScg.a1.0.0.ctl">>)>>
    IN Built(ColorSpace(name, <<"The ">> \o name \o <<" color space">>,
                        <<"acescc_ap1">>, <<>>, "ACES", "default",
                        <<LutFile(lut, "linear", "forward"),
                          Matrix("ACES_AP1_to_AP0", "forward")>>, <<>>),
             generate_1d_LUT_from_CTL(w, lut, ctls, EmptyDict), "none", EmptyDict)

create_ACESproxy(w) ==
    LET name == <<"ACESproxy">>
        lut == sanitize_path(name \o <<"_to_aces.spi1d">>)
        ctls == <<CTLPath(<<"ACESproxy", "ACEScsc.ACESproxy10i_to_ACES.a1.0.0.ctl">>),
                  CTLPath(<<"ACEScg", "ACEScsc.ACES_to_ACEScg.a1.0.0.ctl">>)>>
    IN Built(ColorSpace(name, <<"The ">> \o name \o <<" color space">>,
                        <<"acesproxy_ap1">>, <<>>, "ACES", "default",
                        <<LutFile(lut, "linear", "forward"),
                          Matrix("ACES_AP1_to_AP0", "forward")>>, <<>>),
             generate_1d_LUT_from_CTL(w, lut, ctls, EmptyDict), "none", EmptyDict)

create_ACEScg(w) ==
    LET name == <<"ACEScg">>
    IN Built(ColorSpace(name, <<"The ">> \o name \o <<" color space">>,
                        <<"lin_ap1">>, <<>>, "ACES", "default",
                        <<Matrix("ACES_AP1_to_AP0", "forward")>>, <<>>),
             w, "none", EmptyDict)

\* ------------------------------------------------------- the ADX table fill

\* The numbers of create_CID_to_RLE_LUT, in fixed point: an input (a density x)
\* is a numerator over XDen, a value (a relative log exposure) one over YDen.
NUM_SAMPLES == 4096

XDen == 1000 * (NUM_SAMPLES - 1)

YDen == 100000000

\* floor(a * b / c) and the remainder, for a, b >= 0 and c > 0, by doubling, so
\* that no product leaves the integers' width.
RECURSIVE MulDivMod(_, _, _)
MulDivMod(a, b, c) ==
    IF a = 0 THEN <<0, 0>>
    ELSE LET h == MulDivMod(a \div 2, b, c)
             r == 2 * h[2] + (a % 2) * (b % c)
         IN <<2 * h[1] + (a % 2) * (b \div c) + r \div c, r % c>>

MulDiv(a, b, c) == MulDivMod(a, b, c)[1]

\* RANGE = (-0.19, 3.0), in thousandths.
RANGE == <<-190, 3000>>

\* LUT_1D_xp, as numerators over XDen.
LUT_1D_xp ==
    [j \in 1..11 |-> <<-190, 10, 28, 54, 95, 145, 220, 300, 400, 500, 600>>[j]
                         * (NUM_SAMPLES - 1)]

\* LUT_1D_fp, as numerators over YDen (rounded to it).
LUT_1D_fp ==
    <<-600000000, -272171865, -252171865, -232171865, -212171865, -192171865,
      -172171865, -152171865, -132171865, -112171865, -92654568>>

\* math.log(0.18, 10.0), as a numerator over YDen.
LOG10_018 == -74472749

\* REF_PT = (7120.0 - 1520.0) / 8000.0 * (100.0 / 55.0) - math.log(0.18, 10.0)
REF_PT == MulDiv((7120 - 1520) * 100, YDen, 8000 * 55) - LOG10_018

\* numpy.interp(x, xp, fp): the end values outside the table, and inside it the
\* line through the two points around x.
interpolate_1D(x, xp, fp) ==
    IF x <= xp[1] THEN fp[1]
    ELSE IF x >= xp[Len(xp)] THEN fp[Len(fp)]
    ELSE LET j == CHOOSE k \in 1..(Len(xp) - 1) : xp[k] <= x /\ x < xp[k + 1]
         IN fp[j] + MulDiv(x - xp[j], fp[j + 1] - fp[j], xp[j + 1] - xp[j])

\* The affine branch of cid_to_rle: (100.0 / 55.0) * x - REF_PT
Affine(x) ==
    (IF x >= 0 THEN MulDiv(100 * x, YDen, 55 * XDen)
               ELSE -MulDiv(100 * (-x), YDen, 55 * XDen)) - REF_PT

\* A slip in the boundary: 0.6 itself is left to the affine branch.
cid_to_rle_below(x) ==
    IF x < LUT_1D_xp[11]
    THEN [branch |-> "interpolate_1D", value |-> interpolate_1D(x, LUT_1D_xp, LUT_1D_fp)]
    ELSE [branch |-> "affine", value |-> Affine(x)]

\* cid_to_rle, with the branch that gave the value.
cid_to_rle(x) ==
    IF x <= LUT_1D_xp[11]
    THEN [branch |-> "interpolate_1D", value |-> interpolate_1D(x, LUT_1D_xp, LUT_1D_fp)]
    ELSE [branch |-> "affine", value |-> Affine(x)]

\* fit(value, from_min, from_max, to_min, to_max), for value a numerator over
\* NUM_SAMPLES - 1 and to_min, to_max in thousandths: a numerator over XDen.
fit(value, from_min, from_max, to_min, to_max) ==
    IF from_min = from_max THEN "ValueError"
    ELSE ((value - from_min * (NUM_SAMPLES - 1)) * (to_max - to_min))
             \div (from_max - from_min) + to_min * (NUM_SAMPLES - 1)

\* The inputs of the table: x = fit(i / (NUM_SAMPLES - 1.0), 0.0, 1.0, RANGE[0], RANGE[1])
TableInputs == {fit(i, 0, 1, RANGE[1], RANGE[2]) : i \in 0..(NUM_SAMPLES - 1)}

\* create_ADX.create_CID_to_RLE_LUT: the table is written, whatever is there.
create_CID_to_RLE_LUT(w) ==
    LET lut == <<"ADX_CID_to_RLE.spi1d">>
    IN [lut |-> lut, w |-> write_SPI_1d(w, lut)]

\* A quotient of two float literals, kept as the pair of them.
Quot(num, den) == <<num, den>>

\* A 4 x 4 matrix with s on the first three places of the diagonal and 1 on the
\* last, row by row, as the source writes it out.
Diagonal(s) ==
    [i \in 1..16 |-> IF i \in {1, 6, 11} THEN s
                     ELSE IF i = 16 THEN Quot(1, 1) ELSE Quot(0, 1)]

\* A slip in the offset: the code value of density 0 is added, not subtracted.
adx_to_cdd_added(bit_depth) ==
    IF bit_depth = "10"
    THEN [matrix |-> Diagonal(Quot(1023, 500)),
          offset |-> <<Quot(95, 500), Quot(95, 500), Quot(95, 500), Quot(0, 1)>>]
    ELSE [matrix |-> Diagonal(Quot(65535, 8000)),
          offset |-> <<Quot(1520, 8000), Quot(1520, 8000), Quot(1520, 8000), Quot(0, 1)>>]

\* adx_to_cdd and offset of create_ADX, for the bit depths it is called with.
adx_to_cdd(bit_depth) ==
    IF bit_depth = "10"
    THEN [matrix |-> Diagonal(Quot(1023, 500)),
          offset |-> <<Quot(-95, 500), Quot(-95, 500), Quot(-95, 500), Quot(0, 1)>>]
    ELSE [matrix |-> Diagonal(Quot(65535, 8000)),
          offset |-> <<Quot(-1520, 8000), Quot(-1520, 8000), Quot(-1520, 8000),
                       Quot(0, 1)>>]

create_ADX(w, bit_depth) ==
    LET name == <<"ADX", bit_depth>>
        table == create_CID_to_RLE_LUT(w)
    IN Built(ColorSpace(name, name \o <<" color space - used for film scans">>,
                        <<"adx" \o bit_depth>>, <<>>, "ADX", "UINT" \o bit_depth,
                        <<[type |-> "matrix", matrix |-> adx_to_cdd(bit_depth).matrix,
                           offset |-> adx_to_cdd(bit_depth).offset,
                           direction |-> "forward"],
                          Matrix("CDD_to_CID", "forward"),
                          LutFile(table.lut, "linear", "forward"),
                          [type |-> "log", base |-> 10, direction |-> "inverse"],
                          Matrix("exposure_to_ACES", "forward")>>, <<>>),
             table.w, "none", EmptyDict)

\* The parameters create_generic_log hands to the renderer.
LogParams(middle_grey, min_exposure, max_exposure) ==
    [middleGrey |-> middle_grey, minExposure |-> min_exposure,
     maxExposure |-> max_exposure]

create_generic_log(w, name, aliases, params) ==
    LET lut == sanitize_path(name \o <<"_to_aces.spi1d">>)
        ctls == <<CTLPath(<<"utilities",
                            "ACESlib.OCIO_shaper_log2_to_lin_param.a1.0.0.ctl">>)>>
    IN Built(ColorSpace(name, <<"The ">> \o name \o <<" color space">>,
                        aliases, name, "Utility", "default",
                        <<LutFile(lut, "linear", "forward")>>, <<>>),
             generate_1d_LUT_from_CTL(w, lut, ctls,
                 LogParams(params.middleGrey, params.minExposure, params.maxExposure)),
             "none", params)

\* ----------------------------------------------------------------- shapers

\* The shaper bundle: the name, the two CTL templates, the input scale and the
\* parameter mapping (the caller's dict itself, not a copy of it).
ShaperData(name, params) ==
    [name |-> name,
     to_ACES_CTL |-> <<"utilities", "ACESlib.OCIO_shaper_log2_to_lin_param.a1.0.0.ctl">>,
     from_ACES_CTL |-> <<"utilities", "ACESlib.OCIO_shaper_lin_to_log2_param.a1.0.0.ctl">>,
     input_scale |-> "1.0",
     params |-> params]

\* os.path.exists(os.path.join(lut_directory, shaper_lut)), asked of the name as
\* formatted, before sanitize_path.
ShaperLutExists(w, shaper_name) == (shaper_name \o <<"_to_aces.spi1d">>) \in w.files

\* The shaper LUT a builder refers to: the name is sanitized only when the LUT is built.
ShaperLut(w, shaper_name) ==
    IF ShaperLutExists(w, shaper_name)
    THEN shaper_name \o <<"_to_aces.spi1d">>
    ELSE sanitize_path(shaper_name \o <<"_to_aces.spi1d">>)

\* The builders' "generating the shaper transform" step: the LUT is rendered
\* unless a file of the unsanitized name exists.
BuildShaperLut(w, shaper_info, params) ==
    IF ShaperLutExists(w, shaper_info.name) THEN w
    ELSE generate_1d_LUT_from_CTL(w, ShaperLut(w, shaper_info.name),
                                  <<CTLPath(shaper_info.to_ACES_CTL)>>, params)

\* ------------------------------------------------------------------- looks

\* A slip in a cache of the 3D LUT: the steps are appended only when it is rendered.
LmtForwardCached(w, lmt_name, lmt_values, shaper_info, shaper_OCIO_transform) ==
    LET lut == sanitize_path(shaper_info.name \o <<".">> \o lmt_name \o <<".spi3d">>)
    IN IF "transformCTL" \in DOMAIN lmt_values /\ lut \notin w.files
       THEN [chain |-> <<shaper_OCIO_transform, LutFile(lut, "tetrahedral", "forward")>>,
             w |-> generate_3d_LUT_from_CTL(w, lut,
                       <<CTLPath(shaper_info.to_ACES_CTL),
                         CTLPath(lmt_values["transformCTL"])>>, shaper_info.params),
             exc |-> "none"]
       ELSE [chain |-> <<>>, w |-> w, exc |-> "none"]

\* "Generating the forward transform" of create_ACES_LMT.
LmtForward(w, lmt_name, lmt_values, shaper_info, shaper_OCIO_transform) ==
    IF "transformCTL" \in DOMAIN lmt_values
    THEN LET lut == sanitize_path(shaper_info.name \o <<".">> \o lmt_name \o <<".spi3d">>)
             ctls == <<CTLPath(shaper_info.to_ACES_CTL),
                       CTLPath(lmt_values["transformCTL"])>>
         IN [chain |-> <<shaper_OCIO_transform, LutFile(lut, "tetrahedral", "forward")>>,
             w |-> generate_3d_LUT_from_CTL(w, lut, ctls, shaper_info.params),
             exc |-> "none"]
    ELSE [chain |-> <<>>, w |-> w, exc |-> "none"]

\* "Generating the inverse transform" of create_ACES_LMT: the branch reads
\* odt_values and odt_name, names that neither the function nor the module binds.
LmtInverse(w, lmt_name, lmt_values, shaper_info, shaper_OCIO_transform) ==
    IF "transformCTLInverse" \in DOMAIN lmt_values
    THEN [chain |-> <<>>, w |-> w, exc |-> "NameError"]
    ELSE [chain |-> <<>>, w |-> w, exc |-> "none"]

create_ACES_LMT(lmt_name, lmt_values, shaper_info, aliases, w) ==
    LET w1 == BuildShaperLut(w, shaper_info, shaper_info.params)
        shaper_OCIO_transform == LutFile(ShaperLut(w, shaper_info.name), "linear", "inverse")
        fwd == LmtForward(w1, lmt_name, lmt_values, shaper_info, shaper_OCIO_transform)
        inv == LmtInverse(fwd.w, lmt_name, lmt_values, shaper_info, shaper_OCIO_transform)
    IN IF inv.exc # "none"
       THEN Built(NoColorSpace, inv.w, inv.exc, shaper_info.params)
       ELSE Built(ColorSpace(lmt_name, <<"The ACES Look Transform: ">> \o lmt_name,
                             aliases, <<>>, "Look", "default", inv.chain, fwd.chain),
                  inv.w, "none", shaper_info.params)

\* ----------------------------------------------------------------- outputs

\* A slip in the injection: a legalRange already in the mapping is left there.
InjectLegalRangeOnce(shaper_params, odt_values) ==
    IF "legalRange" \in DOMAIN shaper_params THEN shaper_params
    ELSE SetItem(shaper_params, "legalRange",
                 IF "legalRange" \in DOMAIN odt_values THEN odt_values["legalRange"] ELSE 0)

\* shaper_params['legalRange'] = ...: written into the bundle's own mapping.
InjectLegalRange(shaper_params, odt_values) ==
    SetItem(shaper_params, "legalRange",
            IF "legalRange" \in DOMAIN odt_values THEN odt_values["legalRange"] ELSE 0)

\* A slip in the forward chain: the 3D LUT is put before the shaper step.
OdtForwardSwapped(w, odt_name, odt_values, shaper_info, shaper_params, shaper_OCIO_transform) ==
    IF "transformLUT" \in DOMAIN odt_values
    THEN [chain |-> <<>>, w |-> w, exc |-> "NameError"]
    ELSE IF "transformCTL" \in DOMAIN odt_values
    THEN LET lut == sanitize_path(shaper_info.name \o <<".RRT.a1.0.0.">> \o odt_name
                                  \o <<".spi3d">>)
             ctls == <<CTLPath(shaper_info.to_ACES_CTL),
                       CTLPath(<<"rrt", "RRT.a1.0.0.ctl">>),
                       CTLPath(<<"odt">> \o odt_values["transformCTL"])>>
         IN [chain |-> <<LutFile(lut, "tetrahedral", "forward"), shaper_OCIO_transform>>,
             w |-> generate_3d_LUT_from_CTL(w, lut, ctls, shaper_params),
             exc |-> "none"]
    ELSE [chain |-> <<>>, w |-> w, exc |-> "none"]

\* "Generating the forward transform" of create_ACES_RRT_plus_ODT: a pre-built
\* LUT is copied with shutil.copy, and the module does not import shutil.
OdtForward(w, odt_name, odt_values, shaper_info, shaper_params, shaper_OCIO_transform) ==
    IF "transformLUT" \in DOMAIN odt_values
    THEN [chain |-> <<>>, w |-> w, exc |-> "NameError"]
    ELSE IF "transformCTL" \in DOMAIN odt_values
    THEN LET lut == sanitize_path(shaper_info.name \o <<".RRT.a1.0.0.">> \o odt_name
                                  \o <<".spi3d">>)
             ctls == <<CTLPath(shaper_info.to_ACES_CTL),
                       CTLPath(<<"rrt", "RRT.a1.0.0.ctl">>),
                       CTLPath(<<"odt">> \o odt_values["transformCTL"])>>
         IN [chain |-> <<shaper_OCIO_transform, LutFile(lut, "tetrahedral", "forward")>>,
             w |-> generate_3d_LUT_from_CTL(w, lut, ctls, shaper_params),
             exc |-> "none"]
    ELSE [chain |-> <<>>, w |-> w, exc |-> "none"]

\* "Generating the inverse transform" of create_ACES_RRT_plus_ODT.
OdtInverse(w, odt_name, odt_values, shaper_info, shaper_params, shaper_OCIO_transform) ==
    IF "transformLUTInverse" \in DOMAIN odt_values
    THEN [chain |-> <<>>, w |-> w, exc |-> "NameError"]
    ELSE IF "transformCTLInverse" \in DOMAIN odt_values
    THEN LET lut == sanitize_path(<<"InvRRT.a1.0.0.">> \o odt_name \o <<".">>
                                  \o shaper_info.name \o <<".spi3d">>)
             ctls == <<CTLPath(<<"odt">> \o odt_values["transformCTLInverse"]),
                       CTLPath(<<"rrt", "InvRRT.a1.0.0.ctl">>),
                       CTLPath(shaper_info.from_ACES_CTL)>>
         IN [chain |-> <<LutFile(lut, "tetrahedral", "forward"),
                         [shaper_OCIO_transform EXCEPT !.direction = "forward"]>>,
             w |-> generate_3d_LUT_from_CTL(w, lut, ctls, shaper_params),
             exc |-> "none"]
    ELSE [chain |-> <<>>, w |-> w, exc |-> "none"]

create_ACES_RRT_plus_ODT(odt_name, odt_values, shaper_info, aliases, w) ==
    LET shaper_params == InjectLegalRange(shaper_info.params, odt_values)
        w1 == BuildShaperLut(w, shaper_info, shaper_params)
        shaper_OCIO_transform == LutFile(ShaperLut(w, shaper_info.name), "linear", "inverse")
        fwd == OdtForward(w1, odt_name, odt_values, shaper_info, shaper_params,
                          shaper_OCIO_transform)
        inv == IF fwd.exc # "none" THEN fwd
               ELSE OdtInverse(fwd.w, odt_name, odt_values, shaper_info, shaper_params,
                               shaper_OCIO_transform)
    IN IF inv.exc # "none"
       THEN Built(NoColorSpace, inv.w, inv.exc, shaper_params)
       ELSE Built(ColorSpace(odt_name,
                             odt_values["transformUserNamePrefix"] \o <<" - ">> \o odt_name
                                 \o <<" Output Transform">>,
                             aliases, <<>>, "Output", "default", inv.chain, fwd.chain),
                  inv.w, "none", shaper_params)

\* odt_values.copy() with legalRange set: the variant's own values.
WithLegalRange(odt_values, legalRange) == SetItem(odt_values, "legalRange", legalRange)

\* A slip in the copy: the variant's values are the entry's dict itself, and the
\* legalRange is written into the registry.
EntryAliased(odt_values, legalRange) == SetItem(odt_values, "legalRange", legalRange)

\* The registry's dict of the entry after odt_legal = odt_values.copy() and
\* odt_legal['legalRange'] = ...: as it was, for the write goes to the copy.
EntryAfterCopy(odt_values, legalRange) == odt_values

\* The registry (or the sorted items, which hold the same dicts) with the dict
\* of the identifier as the step left it.
WithEntry(items, odt_name, odt_values) ==
    [j \in DOMAIN items |-> IF items[j][1] = odt_name THEN <<odt_name, odt_values>>
                            ELSE items[j]]

\* The display name of the first variant: suffixed for a dual-range identifier.
OdtNameLegal(odt_name, odt_values) ==
    IF odt_name \in DualRangeODTs
    THEN odt_values["transformUserName"] \o <<" - Legal">>
    ELSE odt_values["transformUserName"]

OdtNameFull(odt_values) == odt_values["transformUserName"] \o <<" - Full">>

\* displays[name] = {...}: the entry of a display, keyed by the variant's name.
Display(linear_display_space, log_display_space, cs) ==
    [Linear |-> linear_display_space, Log |-> log_display_space, OutputTransform |-> cs]

\* A slip in the registration: a display already registered is left as it is.
RegisterDisplayOnce(displays_, name, linear_display_space, log_display_space, cs) ==
    IF name \in DOMAIN displays_ THEN displays_
    ELSE SetItem(displays_, name, Display(linear_display_space, log_display_space, cs))

RegisterDisplay(displays_, name, linear_display_space, log_display_space, cs) ==
    SetItem(displays_, name, Display(linear_display_space, log_display_space, cs))

\* ------------------------------------------------------------------- state

VARIABLES
    lmt_info,       \* the look registry, as iteritems() yields it
    odt_info,       \* the output registry, as iteritems() yields it
    shaper_name,    \* the name of the RRT/ODT shaper
    files,          \* the files of lut_directory
    renders,        \* the renderer and write_SPI_1d invocations of this run
    pc,             \* the statement of create_colorspaces (or of a callee) to run next
    run,            \* which run of create_colorspaces this is: "first" or "second"
    idx,            \* the position in sorted_LMTs / sorted_odts
    sorted_LMTs,    \* create_lmts' local sorted_LMTs
    sorted_odts,    \* create_odts' local sorted_odts
    ACES,           \* create_colorspaces' local ACES
    ACEScc,         \* create_colorspaces' local ACEScc
    colorspaces,    \* create_colorspaces' local colorspaces
    lmts,           \* create_lmts' local colorspaces
    odts,           \* create_odts' local colorspaces
    displays,       \* create_odts' local displays
    lmt_params,     \* create_lmts' dict lmt_params
    log2_params,    \* create_odts' dict log2_params
    result,         \* what this run of create_colorspaces came to
    first,          \* what the first run came to
    cid,            \* an input of cid_to_rle, when the function is run by itself
    rle             \* what cid_to_rle gave for it

vars == <<lmt_info, odt_info, shaper_name, files, renders, pc, run, idx, sorted_LMTs,
          sorted_odts, ACES, ACEScc,
          colorspaces, lmts, odts, displays, lmt_params, log2_params, result, first,
          cid, rle>>

\* An input of cid_to_rle and its value: create_ADX fills its table within one
\* step, and the two stay as they are while create_colorspaces runs.
sample == <<cid, rle>>

NoValue == [branch |-> "none", value |-> 0]

inputs == <<lmt_info, odt_info, shaper_name>>

sorts == <<sorted_LMTs, sorted_odts>>

World == [files |-> files, renders |-> renders]

\* The outcome of a run: the tuple create_colorspaces returns, or the exception.
\* in_ is the function the exception was raised in.
Outcome(status, exc, in_, aces, css, disp, acescc) ==
    [status |-> status, exc |-> exc, raised_in |-> in_, ACES |-> aces,
     colorspaces |-> css, displays |-> disp, ACEScc |-> acescc]

Running == Outcome("running", "none", "", NoColorSpace, <<>>, EmptyDict, NoColorSpace)

Raised(exc, in_) == Outcome("raised", exc, in_, NoColorSpace, <<>>, EmptyDict, NoColorSpace)

\* return (ACES, colorspaces, displays, ACEScc)
Returned(aces, css, disp, acescc) ==
    Outcome("returned", "none", "", aces, css, disp, acescc)

\* A slip in the assembly: the new spaces are put in front of the collection.
ExtendInFront(css, more) == more \o css

\* colorspaces.extend(more)
Extend(css, more) == css \o more

\* A registry with one plain entry, for the runs that vary the other registry.
PlainLmts == {<<<<LmtId(1), LmtValues(<<"A">>, {"transformCTL"}, <<"p">>)>>>>}

PlainOdts ==
    {<<<<"Academy.Rec709_100nits_dim.a1.0.0", OdtValues(<<"A">>, {"transformCTL"})>>>>}

Locals ==
    /\ pc = "create_aces"
    /\ idx = 0
    /\ sorted_LMTs = <<>>
    /\ sorted_odts = <<>>
    /\ ACES = NoColorSpace
    /\ ACEScc = NoColorSpace
    /\ colorspaces = <<>>
    /\ lmts = <<>>
    /\ odts = <<>>
    /\ displays = EmptyDict
    /\ lmt_params = EmptyDict
    /\ log2_params = EmptyDict
    /\ result = Running

Init ==
    /\ \/ /\ lmt_info \in LmtRegistries(MaxLmts)
          /\ odt_info \in PlainOdts
          /\ shaper_name = <<"S", " ", "2">>
          /\ files \in InitialDirs(shaper_name)
       \/ /\ lmt_info \in PlainLmts
          /\ odt_info \in PlainOdts
          /\ shaper_name \in ShaperNames
          /\ files \in InitialDirs(shaper_name)
       \/ /\ lmt_info \in PlainLmts
          /\ odt_info \in OdtRegistries(MaxOdts)
          /\ shaper_name = <<"S", " ", "2">>
          /\ files = {}
    /\ renders = <<>>
    /\ run = "first"
    /\ first = Running
    /\ cid = 0
    /\ rle = NoValue
    /\ Locals

\* ----------------------------------------------------------------- actions

\* ACES = create_aces()
CreateAces ==
    /\ pc = "create_aces"
    /\ ACES' = create_aces
    /\ pc' = "create_ACEScc"
    /\ UNCHANGED <<inputs, sample, sorts, files, renders, run, idx, ACEScc, colorspaces, lmts, odts,
                   displays, lmt_params, log2_params, result, first>>

\* ACEScc = create_ACEScc(...); colorspaces.append(ACEScc)
CreateACEScc ==
    /\ pc = "create_ACEScc"
    /\ LET b == create_ACEScc(World)
       IN /\ files' = b.w.files
          /\ renders' = b.w.renders
          /\ ACEScc' = b.cs
          /\ colorspaces' = Append(colorspaces, b.cs)
    /\ pc' = "create_ACESproxy"
    /\ UNCHANGED <<inputs, sample, sorts, run, idx, ACES, lmts, odts, displays, lmt_params,
                   log2_params, result, first>>

\* ACESproxy = create_ACESproxy(...); colorspaces.append(ACESproxy)
CreateACESproxy ==
    /\ pc = "create_ACESproxy"
    /\ LET b == create_ACESproxy(World)
       IN /\ files' = b.w.files
          /\ renders' = b.w.renders
          /\ colorspaces' = Append(colorspaces, b.cs)
    /\ pc' = "create_ACEScg"
    /\ UNCHANGED <<inputs, sample, sorts, run, idx, ACES, ACEScc, lmts, odts, displays, lmt_params,
                   log2_params, result, first>>

\* ACEScg = create_ACEScg(...); colorspaces.append(ACEScg)
CreateACEScg ==
    /\ pc = "create_ACEScg"
    /\ LET b == create_ACEScg(World)
       IN /\ files' = b.w.files
          /\ renders' = b.w.renders
          /\ colorspaces' = Append(colorspaces, b.cs)
    /\ pc' = "create_ADX10"
    /\ UNCHANGED <<inputs, sample, sorts, run, idx, ACES, ACEScc, lmts, odts, displays, lmt_params,
                   log2_params, result, first>>

\* ADX10 = create_ADX(..., bit_depth=10), then ADX16 = create_ADX(..., bit_depth=16),
\* each appended.
CreateADX ==
    /\ pc \in {"create_ADX10", "create_ADX16"}
    /\ LET b == create_ADX(World, IF pc = "create_ADX10" THEN "10" ELSE "16")
       IN /\ files' = b.w.files
          /\ renders' = b.w.renders
          /\ colorspaces' = Append(colorspaces, b.cs)
    /\ pc' = IF pc = "create_ADX10" THEN "create_ADX16" ELSE "create_lmts"
    /\ UNCHANGED <<inputs, sample, sorts, run, idx, ACES, ACEScc, lmts, odts, displays, lmt_params,
                   log2_params, result, first>>

\* create_lmts up to its loop: the LMT shaper is built and is the first look space.
CreateLmtShaper ==
    /\ pc = "create_lmts"
    /\ lmt_params' = LogParams("0.18", "-10.0", "6.5")
    /\ LET b == create_generic_log(World, LmtShaperName, <<"crv_lmtshaper">>, lmt_params')
       IN /\ files' = b.w.files
          /\ renders' = b.w.renders
          /\ lmts' = <<b.cs>>
    /\ sorted_LMTs' = sorted(lmt_info)
    /\ idx' = 1
    /\ pc' = "lmt_loop"
    /\ UNCHANGED <<inputs, sample, sorted_odts, run, ACES, ACEScc, colorspaces, odts, displays, log2_params,
                   result, first>>

\* One pass of create_lmts' loop: create_ACES_LMT on the next sorted entry.
CreateLmt ==
    /\ pc = "lmt_loop"
    /\ idx <= Len(sorted_LMTs)
    /\ \E b \in {LET lmt_values == sorted_LMTs[idx][2]
                   IN create_ACES_LMT(lmt_values["transformUserName"], lmt_values,
                                ShaperData(LmtShaperName, lmt_params),
                                <<"look_">> \o compact(lmt_values["transformUserName"]),
                                World)} :
          /\ files' = b.w.files
          /\ renders' = b.w.renders
          /\ lmt_params' = b.params
          /\ IF b.exc = "none"
             THEN /\ lmts' = Append(lmts, b.cs)
                  /\ idx' = idx + 1
                  /\ UNCHANGED <<pc, result>>
             ELSE /\ pc' = "raised"
                  /\ result' = Raised(b.exc, "create_ACES_LMT")
                  /\ UNCHANGED <<lmts, idx>>
    /\ UNCHANGED <<inputs, sample, sorts, run, ACES, ACEScc, colorspaces, odts, displays, log2_params,
                   first>>

\* create_lmts returns; colorspaces.extend(lmts)
LmtsReturn ==
    /\ pc = "lmt_loop"
    /\ idx > Len(sorted_LMTs)
    /\ colorspaces' = Extend(colorspaces, lmts)
    /\ pc' = "create_odts"
    /\ UNCHANGED <<inputs, sample, sorts, files, renders, run, idx, ACES, ACEScc, lmts, odts, displays,
                   lmt_params, log2_params, result, first>>

\* create_odts up to the AP1 shaper: the log2 shaper is built.
CreateOdtShaper ==
    /\ pc = "create_odts"
    /\ log2_params' = LogParams("0.18", "-6.0", "6.5")
    /\ LET b == create_generic_log(World, shaper_name,
                                   <<"crv_">> \o compact(shaper_name), log2_params')
       IN /\ files' = b.w.files
          /\ renders' = b.w.renders
          /\ odts' = <<b.cs>>
    /\ displays' = EmptyDict
    /\ pc' = "odt_shaper_AP1"
    /\ UNCHANGED <<inputs, sample, sorts, run, idx, ACES, ACEScc, colorspaces, lmts, lmt_params,
                   result, first>>

\* The AP1 shaper: create_generic_log on the same name, then renamed and given
\* the AP1 to AP0 matrix.
CreateOdtShaperAP1 ==
    /\ pc = "odt_shaper_AP1"
    /\ LET b == create_generic_log(World, shaper_name,
                                   compact(shaper_name) \o <<"_ap1">>, log2_params)
           log2_shaper_AP1 ==
               [b.cs EXCEPT !.name = @ \o <<" - AP1">>,
                            !.to_reference_transforms =
                                Append(@, Matrix("ACES_AP1_to_AP0", "forward"))]
       IN /\ files' = b.w.files
          /\ renders' = b.w.renders
          /\ odts' = Append(odts, log2_shaper_AP1)
    /\ sorted_odts' = sorted(odt_info)
    /\ idx' = 1
    /\ pc' = "odt_legal"
    /\ UNCHANGED <<inputs, sample, sorted_LMTs, run, ACES, ACEScc, colorspaces, lmts, displays, lmt_params,
                   log2_params, result, first>>

\* The first half of a pass of create_odts' loop: the legal (or only) variant.
CreateOdtLegal ==
    /\ pc = "odt_legal"
    /\ idx <= Len(sorted_odts)
    /\ LET odt_name == sorted_odts[idx][1]
           odt_values == sorted_odts[idx][2]
           odt_name_legal == OdtNameLegal(odt_name, odt_values)
       IN \E b \in {create_ACES_RRT_plus_ODT(odt_name_legal, WithLegalRange(odt_values, 1),
                                         ShaperData(shaper_name, log2_params),
                                         <<"out_">> \o compact(odt_name_legal), World)} :
          /\ files' = b.w.files
          /\ renders' = b.w.renders
          /\ log2_params' = b.params
          /\ odt_info' = WithEntry(odt_info, odt_name, EntryAfterCopy(odt_values, 1))
          /\ sorted_odts' = WithEntry(sorted_odts, odt_name, EntryAfterCopy(odt_values, 1))
          /\ IF b.exc = "none"
             THEN /\ odts' = Append(odts, b.cs)
                  /\ displays' = RegisterDisplay(displays, odt_name_legal, ACES, ACEScc, b.cs)
                  /\ IF odt_name \in DualRangeODTs
                     THEN pc' = "odt_full" /\ idx' = idx
                     ELSE pc' = "odt_legal" /\ idx' = idx + 1
                  /\ UNCHANGED result
             ELSE /\ pc' = "raised"
                  /\ result' = Raised(b.exc, "create_ACES_RRT_plus_ODT")
                  /\ UNCHANGED <<odts, displays, idx>>
    /\ UNCHANGED <<lmt_info, shaper_name, sample, sorted_LMTs, run, ACES, ACEScc, colorspaces,
                   lmts, lmt_params, first>>

\* The second half, for a dual-range identifier: the full variant.
CreateOdtFull ==
    /\ pc = "odt_full"
    /\ LET odt_name == sorted_odts[idx][1]
           odt_values == sorted_odts[idx][2]
           odt_name_full == OdtNameFull(odt_values)
       IN \E b \in {create_ACES_RRT_plus_ODT(odt_name_full, WithLegalRange(odt_values, 0),
                                         ShaperData(shaper_name, log2_params),
                                         <<"out_">> \o compact(odt_name_full), World)} :
          /\ files' = b.w.files
          /\ renders' = b.w.renders
          /\ log2_params' = b.params
          /\ odt_info' = WithEntry(odt_info, odt_name, EntryAfterCopy(odt_values, 0))
          /\ sorted_odts' = WithEntry(sorted_odts, odt_name, EntryAfterCopy(odt_values, 0))
          /\ IF b.exc = "none"
             THEN /\ odts' = Append(odts, b.cs)
                  /\ displays' = RegisterDisplay(displays, odt_name_full, ACES, ACEScc, b.cs)
                  /\ pc' = "odt_legal"
                  /\ idx' = idx + 1
                  /\ UNCHANGED result
             ELSE /\ pc' = "raised"
                  /\ result' = Raised(b.exc, "create_ACES_RRT_plus_ODT")
                  /\ UNCHANGED <<odts, displays, idx>>
    /\ UNCHANGED <<lmt_info, shaper_name, sample, sorted_LMTs, run, ACES, ACEScc, colorspaces,
                   lmts, lmt_params, first>>

\* create_odts returns; colorspaces.extend(odts)
OdtsReturn ==
    /\ pc = "odt_legal"
    /\ idx > Len(sorted_odts)
    /\ colorspaces' = Extend(colorspaces, odts)
    /\ pc' = "return"
    /\ UNCHANGED <<inputs, sample, sorts, files, renders, run, idx, ACES, ACEScc, lmts, odts, displays,
                   lmt_params, log2_params, result, first>>

\* return (ACES, colorspaces, displays, ACEScc)
Return ==
    /\ pc = "return"
    /\ result' = Returned(ACES, colorspaces, displays, ACEScc)
    /\ pc' = "done"
    /\ UNCHANGED <<inputs, sample, sorts, files, renders, run, idx, ACES, ACEScc, colorspaces, lmts,
                   odts, displays, lmt_params, log2_params, first>>

\* create_colorspaces is called again, with the same arguments, on the directory
\* as the run before left it.
RunAgain ==
    /\ pc \in {"done", "raised"}
    /\ run = "first"
    /\ run' = "second"
    /\ first' = result
    /\ renders' = <<>>
    /\ pc' = "create_aces"
    /\ idx' = 0
    /\ sorted_LMTs' = <<>>
    /\ sorted_odts' = <<>>
    /\ ACES' = NoColorSpace
    /\ ACEScc' = NoColorSpace
    /\ colorspaces' = <<>>
    /\ lmts' = <<>>
    /\ odts' = <<>>
    /\ displays' = EmptyDict
    /\ lmt_params' = EmptyDict
    /\ log2_params' = EmptyDict
    /\ result' = Running
    /\ UNCHANGED <<inputs, sample, files>>

Next ==
    \/ CreateAces
    \/ CreateACEScc
    \/ CreateACESproxy
    \/ CreateACEScg
    \/ CreateADX
    \/ CreateLmtShaper
    \/ CreateLmt
    \/ LmtsReturn
    \/ CreateOdtShaper
    \/ CreateOdtShaperAP1
    \/ CreateOdtLegal
    \/ CreateOdtFull
    \/ OdtsReturn
    \/ Return
    \/ RunAgain

Spec == Init /\ [][Next]_vars

\* ------------------------------------------------------ a failing renderer

\* The builder call create_colorspaces (or create_lmts, create_odts) is about to
\* make, with what it would come to if every renderer invocation completed.
PendingBuilder ==
    CASE pc = "create_ACEScc" -> [fn |-> "create_ACEScc", b |-> create_ACEScc(World)]
      [] pc = "create_ACESproxy" -> [fn |-> "create_ACESproxy", b |-> create_ACESproxy(World)]
      [] pc = "create_lmts" ->
            [fn |-> "create_generic_log",
             b |-> create_generic_log(World, LmtShaperName, <<"crv_lmtshaper">>,
                                      LogParams("0.18", "-10.0", "6.5"))]
      [] pc = "lmt_loop" /\ idx <= Len(sorted_LMTs) ->
            LET lmt_values == sorted_LMTs[idx][2]
            IN [fn |-> "create_ACES_LMT",
                b |-> create_ACES_LMT(lmt_values["transformUserName"], lmt_values,
                                      ShaperData(LmtShaperName, lmt_params),
                                      <<"look_">> \o compact(lmt_values["transformUserName"]),
                                      World)]
      [] pc = "create_odts" ->
            [fn |-> "create_generic_log",
             b |-> create_generic_log(World, shaper_name, <<"crv_">> \o compact(shaper_name),
                                      LogParams("0.18", "-6.0", "6.5"))]
      [] pc = "odt_shaper_AP1" ->
            [fn |-> "create_generic_log",
             b |-> create_generic_log(World, shaper_name,
                                      compact(shaper_name) \o <<"_ap1">>, log2_params)]
      [] pc = "odt_legal" /\ idx <= Len(sorted_odts) ->
            LET odt_values == sorted_odts[idx][2]
                odt_name_legal == OdtNameLegal(sorted_odts[idx][1], odt_values)
            IN [fn |-> "create_ACES_RRT_plus_ODT",
                b |-> create_ACES_RRT_plus_ODT(odt_name_legal, WithLegalRange(odt_values, 1),
                                               ShaperData(shaper_name, log2_params),
                                               <<"out_">> \o compact(odt_name_legal), World)]
      [] pc = "odt_full" ->
            LET odt_values == sorted_odts[idx][2]
                odt_name_full == OdtNameFull(odt_values)
            IN [fn |-> "create_ACES_RRT_plus_ODT",
                b |-> create_ACES_RRT_plus_ODT(odt_name_full, WithLegalRange(odt_values, 0),
                                               ShaperData(shaper_name, log2_params),
                                               <<"out_">> \o compact(odt_name_full), World)]
      [] OTHER -> [fn |-> "", b |-> Built(NoColorSpace, World, "none", EmptyDict)]

\* The invocations of the renderer proper: write_SPI_1d is a write of this process.
RendererFns == {"generate_1d_LUT_from_CTL", "generate_3d_LUT_from_CTL"}

\* A slip in the handling of a failure: the statement that called is run again.
RunSameStatement(pc_) == pc_

\* The statement run after an exception of the renderer: none, for no builder and
\* no caller of a builder catches anything, and the exception leaves
\* create_colorspaces.
AfterRendererFailure(pc_) == "raised"

\* The renderer fails in the k-th invocation of the pending builder call: the
\* invocations before it completed, this one raises, leaving its target file
\* written or not, and the exception leaves the builder and its callers.
RendererFails ==
    /\ \E p \in {PendingBuilder} :
          LET new == SubSeq(p.b.w.renders, Len(renders) + 1, Len(p.b.w.renders))
          IN \E k \in {j \in DOMAIN new : new[j].fn \in RendererFns}, wrote \in BOOLEAN :
                /\ renders' = renders \o SubSeq(new, 1, k)
                /\ files' = files \cup {new[j].path : j \in 1..(k - 1)}
                                  \cup (IF wrote THEN {new[k].path} ELSE {})
                /\ lmt_params' = IF pc \in {"create_lmts", "lmt_loop"}
                                 THEN p.b.params ELSE lmt_params
                /\ log2_params' = IF pc \in {"create_odts", "odt_shaper_AP1", "odt_legal", "odt_full"}
                                  THEN p.b.params ELSE log2_params
                /\ result' = Raised("RendererError", p.fn)
                /\ pc' = AfterRendererFailure(pc)
    /\ UNCHANGED <<inputs, sample, sorts, run, idx, ACES, ACEScc, colorspaces, lmts, odts, displays,
                   first>>

\* One run of create_colorspaces with a renderer that may fail.
NextRendererFails ==
    \/ CreateAces
    \/ CreateACEScc
    \/ CreateACESproxy
    \/ CreateACEScg
    \/ CreateADX
    \/ CreateLmtShaper
    \/ CreateLmt
    \/ LmtsReturn
    \/ CreateOdtShaper
    \/ CreateOdtShaperAP1
    \/ CreateOdtLegal
    \/ CreateOdtFull
    \/ OdtsReturn
    \/ Return
    \/ RendererFails

SpecRendererFails == Init /\ [][NextRendererFails]_vars

\* --------------------------------------------------- cid_to_rle by itself

\* cid_to_rle is run on one input: a sample of the table, or 0.6 itself, which
\* no sample is.
InitTable ==
    /\ cid \in TableInputs \cup {LUT_1D_xp[11]}
    /\ rle = NoValue
    /\ lmt_info \in PlainLmts
    /\ odt_info \in PlainOdts
    /\ shaper_name = <<"S">>
    /\ files = {}
    /\ renders = <<>>
    /\ run = "first"
    /\ first = Running
    /\ Locals

\* data.append(cid_to_rle(x))
FillSample ==
    /\ rle = NoValue
    /\ rle' = cid_to_rle(cid)
    /\ UNCHANGED <<inputs, cid, sorts, files, renders, pc, run, idx, ACES, ACEScc,
                   colorspaces, lmts, odts, displays, lmt_params, log2_params, result,
                   first>>

NextTable == FillSample

SpecTable == InitTable /\ [][NextTable]_vars

\* ------------------------------------------------------------------ claims

Ended == pc \in {"done", "raised"}

\* create_lmts has called create_ACES_LMT on the k-th sorted look entry.
LmtCalled(k) ==
    /\ k \in 1..Len(sorted_LMTs)
    /\ \/ pc = "lmt_loop" /\ idx > k
       \/ pc = "raised" /\ result.raised_in = "create_ACES_LMT" /\ idx = k
       \/ pc \in {"create_odts", "odt_shaper_AP1", "odt_legal", "odt_full", "return", "done"}
       \/ pc = "raised" /\ result.raised_in = "create_ACES_RRT_plus_ODT"

\* create_odts has called create_ACES_RRT_plus_ODT for the first variant of the
\* k-th sorted output entry.
OdtCalled(k) ==
    /\ k \in 1..Len(sorted_odts)
    /\ \/ pc = "odt_legal" /\ idx > k
       \/ pc = "odt_full" /\ idx >= k
       \/ pc = "raised" /\ result.raised_in = "create_ACES_RRT_plus_ODT" /\ idx >= k
       \/ pc \in {"return", "done"}

\* create_odts has returned.
OdtsReturned == pc \in {"return", "done"}

\* A display name without the suffix of a variant.
Unsuffixed(name) ==
    IF name # <<>> /\ name[Len(name)] \in {" - Legal", " - Full"}
    THEN SubSeq(name, 1, Len(name) - 1)
    ELSE name

\* The ColorSpaces create_lmts built from the registry (after the shaper) and
\* those create_odts built from the registry (after the two shapers).
LookSpaces == SubSeq(lmts, 2, Len(lmts))

OutputSpaces == SubSeq(odts, 3, Len(odts))

Ascending(css) ==
    \A i, j \in DOMAIN css :
        i < j => StrCmp(Unsuffixed(css[i].name), Unsuffixed(css[j].name)) <= 0

\* C1: the returned collection is ACEScc, ACESproxy, ACEScg, ADX10, ADX16, then the
\* look assembler's ColorSpaces, then the output assembler's; the reference space
\* is returned apart and is no element of it; the working space returned apart is
\* the first element.
C1_AssemblyOrder ==
    result.status = "returned" =>
        LET css == result.colorspaces
        IN /\ Len(css) = 5 + Len(lmts) + Len(odts)
           /\ [i \in 1..5 |-> css[i].name] =
                  <<<<"ACEScc">>, <<"ACESproxy">>, <<"ACEScg">>,
                    <<"ADX", "10">>, <<"ADX", "16">>>>
           /\ SubSeq(css, 6, 5 + Len(lmts)) = lmts
           /\ SubSeq(css, 6 + Len(lmts), Len(css)) = odts
           /\ result.ACES = create_aces
           /\ \A i \in DOMAIN css : css[i] # result.ACES
           /\ result.ACEScc = css[1]

C1_Witness ==
    /\ result.status = "returned"
    /\ Len(LookSpaces) >= 2
    /\ Len(OutputSpaces) >= 2

\* C2: the look ColorSpaces and the output ColorSpaces are built in ascending
\* order of the entries' transformUserName.
C2_DisplayNameOrder == Ascending(LookSpaces) /\ Ascending(OutputSpaces)

\* The names create_odts is to give the ColorSpaces of the entries, in order.
RECURSIVE ExpectedOdtNames(_)
ExpectedOdtNames(items) ==
    IF items = <<>> THEN <<>>
    ELSE LET n == Head(items)[2]["transformUserName"]
         IN (IF Head(items)[1] \in DualRangeODTs
             THEN <<n \o <<" - Legal">>, n \o <<" - Full">>>>
             ELSE <<n>>) \o ExpectedOdtNames(Tail(items))

IsSuffix(t) == t \in {" - Legal", " - Full"}

Strip(string) == SelectSeq(string, LAMBDA t : ~IsSuffix(t))

StripSteps(chain) == [i \in DOMAIN chain |-> [chain[i] EXCEPT !.path = Strip(@)]]

\* An output ColorSpace with the variant's suffix taken out of its name and of
\* what is derived from the name.
StripVariant(cs) ==
    [cs EXCEPT !.name = Strip(@), !.description = Strip(@), !.aliases = Strip(@),
               !.to_reference_transforms = StripSteps(@),
               !.from_reference_transforms = StripSteps(@)]

\* The 3D renders of the variants with the given suffix, less the suffix and the
\* legalRange they were given.
VariantRenders(suffix) ==
    {[path |-> Strip(renders[i].path), ctls |-> renders[i].ctls,
      params |-> [k \in DOMAIN renders[i].params \ {"legalRange"} |-> renders[i].params[k]]] :
        i \in {j \in DOMAIN renders :
                 /\ renders[j].fn = "generate_3d_LUT_from_CTL"
                 /\ \E t \in DOMAIN renders[j].path : renders[j].path[t] = suffix}}

\* The output ColorSpaces are those expected, and a legal and a full variant
\* differ by the suffix and the legalRange alone.
VariantsAsExpected ==
    /\ [i \in DOMAIN OutputSpaces |-> OutputSpaces[i].name] = ExpectedOdtNames(sorted_odts)
    /\ \A i \in DOMAIN OutputSpaces :
           (i > 1 /\ OutputSpaces[i].name[Len(OutputSpaces[i].name)] = " - Full")
               => /\ OutputSpaces[i - 1].name = Strip(OutputSpaces[i].name) \o <<" - Legal">>
                  /\ StripVariant(OutputSpaces[i - 1]) = StripVariant(OutputSpaces[i])
    /\ VariantRenders(" - Legal") = VariantRenders(" - Full")
    /\ \A i \in DOMAIN renders :
           renders[i].fn = "generate_3d_LUT_from_CTL" /\ "legalRange" \in DOMAIN renders[i].params
               => (renders[i].params["legalRange"] = 0
                       <=> \E t \in DOMAIN renders[i].path : renders[i].path[t] = " - Full")

\* create_odts has ended: it returned, or an exception left it.
OdtsEnded ==
    OdtsReturned \/ (pc = "raised" /\ result.raised_in = "create_ACES_RRT_plus_ODT")

\* C3: create_odts produces, for every entry with a dual-range identifier, a
\* ' - Legal' and a ' - Full' ColorSpace that differ by the suffix and the
\* legalRange alone, and for every other entry one unsuffixed ColorSpace.
C3_VariantsPerEntry == OdtsEnded => VariantsAsExpected

\* The last ColorSpace of the name among those create_odts built from the registry.
LastNamed(n) ==
    OutputSpaces[CHOOSE i \in DOMAIN OutputSpaces :
                     /\ OutputSpaces[i].name = n
                     /\ \A j \in DOMAIN OutputSpaces : OutputSpaces[j].name = n => j <= i]

DisplaysKeyedAndPaired ==
    \A n \in DOMAIN displays :
        /\ displays[n].OutputTransform.name = n
        /\ displays[n].Linear = ACES
        /\ displays[n].Log = ACEScc

\* C4 as stated: one display per output ColorSpace built from the registry, keyed
\* by the name of its ColorSpace, all with the same linear and log view.
C4_OneDisplayPerOutput ==
    OdtsReturned =>
        /\ Cardinality(DOMAIN displays) = Len(OutputSpaces)
        /\ DisplaysKeyedAndPaired

\* C4 as amended: one display per name of an output ColorSpace built from the
\* registry, holding the last ColorSpace built of that name, keyed by the name,
\* all with the same linear and log view.
C4_OneDisplayPerOutputName ==
    OdtsReturned =>
        /\ DOMAIN displays = {OutputSpaces[i].name : i \in DOMAIN OutputSpaces}
        /\ \A n \in DOMAIN displays : displays[n].OutputTransform = LastNamed(n)
        /\ DisplaysKeyedAndPaired

C4_Witness ==
    /\ OdtsReturned
    /\ Len(OutputSpaces) > Cardinality(DOMAIN displays)
    /\ \E n \in DOMAIN displays : n[Len(n)] = " - Full"

\* C5: no renderer invocation and no table write targets a path that existed
\* just before it.
C5_NoClobber == \A i \in DOMAIN renders : ~renders[i].existed

\* The LUTs of the two shapers, under the names the builders write them.
ShaperLuts ==
    {sanitize_path(LmtShaperName \o <<"_to_aces.spi1d">>),
     sanitize_path(shaper_name \o <<"_to_aces.spi1d">>)}

Rendered(path) == Cardinality({i \in DOMAIN renders : renders[i].path = path})

\* C6: within a run the LUT of a shaper is rendered at most once.
C6_ShaperRenderedOnce == \A path \in ShaperLuts : Rendered(path) <= 1

\* C7: a call of create_ACES_LMT or create_ACES_RRT_plus_ODT leaves the
\* parameter mapping of the caller's shaper bundle as it was.
C7_BundleParamsUnchanged ==
    [][/\ pc = "lmt_loop" => lmt_params' = lmt_params
       /\ pc \in {"odt_legal", "odt_full"} => log2_params' = log2_params]_vars

\* C8: a second run with the same arguments, on the directory the first run
\* left, comes to what the first run came to.
C8_SecondRunIdentical == (run = "second" /\ Ended) => result = first

C8_Witness ==
    /\ run = "second"
    /\ result.status = "returned"
    /\ Len(LookSpaces) >= 1
    /\ Len(OutputSpaces) >= 2
    /\ \E i \in DOMAIN renders : renders[i].existed
    /\ \E i \in DOMAIN OutputSpaces : OutputSpaces[i].from_reference_transforms # <<>>

\* os.path.basename
Basename(path) ==
    LET seps == {i \in DOMAIN path : path[i] = "/"}
    IN IF seps = {} THEN path
       ELSE SubSeq(path, (CHOOSE i \in seps : \A j \in seps : j <= i) + 1, Len(path))

\* C9: for a look entry with a transformCTLInverse, create_ACES_LMT returns a
\* ColorSpace whose to_reference_transforms is the 3D LUT (tetrahedral, forward),
\* rendered from the look's inverse CTL and then the shaper's from-reference CTL,
\* followed by the shaper LUT with direction forward.
C9_LmtInverseChain ==
    \A k \in 1..Len(sorted_LMTs) :
        (LmtCalled(k) /\ "transformCTLInverse" \in DOMAIN sorted_LMTs[k][2]) =>
            /\ Len(LookSpaces) >= k
            /\ LET chain == LookSpaces[k].to_reference_transforms
               IN /\ Len(chain) = 2
                  /\ chain[1].type = "lutFile"
                  /\ chain[1].interpolation = "tetrahedral"
                  /\ chain[1].direction = "forward"
                  /\ chain[2].type = "lutFile"
                  /\ chain[2].path \in ShaperLuts
                  /\ chain[2].direction = "forward"
                  /\ \E i \in DOMAIN renders :
                         /\ renders[i].fn = "generate_3d_LUT_from_CTL"
                         /\ renders[i].path = chain[1].path
                         /\ renders[i].ctls =
                                <<CTLPath(sorted_LMTs[k][2]["transformCTLInverse"]),
                                  CTLPath(ShaperData(LmtShaperName, lmt_params).from_ACES_CTL)>>

\* The place in odts of the first variant of the k-th sorted output entry.
OdtPlace(k) == 2 + Len(ExpectedOdtNames(SubSeq(sorted_odts, 1, k - 1))) + 1

\* C10: for an output entry with a pre-built LUT for a direction, the LUT is
\* copied into the directory, no 3D table is rendered for that direction, and
\* the chain of the direction is the shaper step and the copied file's base name.
C10_PrebuiltLutCopied ==
    \A k \in 1..Len(sorted_odts) :
        LET odt_values == sorted_odts[k][2]
            name == OdtNameLegal(sorted_odts[k][1], odt_values)
        IN OdtCalled(k) =>
            /\ "transformLUT" \in DOMAIN odt_values =>
                  /\ Basename(odt_values["transformLUT"]) \in files
                  /\ Len(odts) >= OdtPlace(k)
                  /\ LET chain == odts[OdtPlace(k)].from_reference_transforms
                     IN /\ Len(chain) = 2
                        /\ chain[1].path \in ShaperLuts /\ chain[1].direction = "inverse"
                        /\ chain[2] = LutFile(Basename(odt_values["transformLUT"]),
                                              "tetrahedral", "forward")
                  /\ Rendered(sanitize_path(shaper_name \o <<".RRT.a1.0.0.">> \o name
                                            \o <<".spi3d">>)) = 0
            /\ "transformLUTInverse" \in DOMAIN odt_values =>
                  /\ Basename(odt_values["transformLUTInverse"]) \in files
                  /\ Len(odts) >= OdtPlace(k)
                  /\ LET chain == odts[OdtPlace(k)].to_reference_transforms
                     IN /\ Len(chain) = 2
                        /\ chain[1] = LutFile(Basename(odt_values["transformLUTInverse"]),
                                              "tetrahedral", "forward")
                        /\ chain[2].path \in ShaperLuts /\ chain[2].direction = "forward"
                  /\ Rendered(sanitize_path(<<"InvRRT.a1.0.0.">> \o name \o <<".">>
                                            \o shaper_name \o <<".spi3d">>)) = 0

\* The directions an entry describes.
HasForward(values) == DOMAIN values \cap {"transformCTL", "transformLUT"} # {}

HasInverse(values) == DOMAIN values \cap {"transformCTLInverse", "transformLUTInverse"} # {}

\* The 3D renders of this run made for the looks: their LUTs are named after the
\* LMT shaper.
LookRenders3D ==
    {i \in DOMAIN renders :
        /\ renders[i].fn = "generate_3d_LUT_from_CTL"
        /\ \E t \in DOMAIN renders[i].path : renders[i].path[t] = "LMT"}

\* The places in odts of the variants create_odts is to have built by now of
\* the k-th sorted output entry.
OdtPlaces(k) ==
    {OdtPlace(k)} \cup
    (IF /\ sorted_odts[k][1] \in DualRangeODTs
        /\ (idx > k \/ pc \in {"return", "done"} \/ (pc = "raised" /\ idx = k /\ Len(odts) >= OdtPlace(k)))
     THEN {OdtPlace(k) + 1} ELSE {})

\* C11: a look or output entry with no description for a direction gets a
\* ColorSpace whose chain for that direction is empty, and no error; for a look
\* entry with neither description no 3D table is rendered.
C11_EmptyChainsNoError ==
    /\ \A k \in 1..Len(sorted_LMTs) :
           LET lmt_values == sorted_LMTs[k][2]
           IN LmtCalled(k) =>
               /\ ~HasForward(lmt_values) =>
                      /\ Len(LookSpaces) >= k
                      /\ LookSpaces[k].from_reference_transforms = <<>>
               /\ ~HasInverse(lmt_values) =>
                      /\ Len(LookSpaces) >= k
                      /\ LookSpaces[k].to_reference_transforms = <<>>
    /\ Cardinality(LookRenders3D) <=
           Cardinality({k \in 1..Len(sorted_LMTs) :
                           /\ LmtCalled(k)
                           /\ HasForward(sorted_LMTs[k][2]) \/ HasInverse(sorted_LMTs[k][2])})
    /\ \A k \in 1..Len(sorted_odts) :
           LET odt_values == sorted_odts[k][2]
           IN OdtCalled(k) =>
               \A p \in OdtPlaces(k) :
                   /\ ~HasForward(odt_values) =>
                          /\ Len(odts) >= p
                          /\ odts[p].from_reference_transforms = <<>>
                   /\ ~HasInverse(odt_values) =>
                          /\ Len(odts) >= p
                          /\ odts[p].to_reference_transforms = <<>>

\* The forward chain the builders are to give: the shaper LUT (linear, inverse),
\* then a 3D LUT (tetrahedral, forward) that this run rendered.
ShaperThenLut3D(chain) ==
    /\ Len(chain) = 2
    /\ chain[1].type = "lutFile"
    /\ chain[1].path \in ShaperLuts
           \cup {LmtShaperName \o <<"_to_aces.spi1d">>, shaper_name \o <<"_to_aces.spi1d">>}
    /\ chain[1].interpolation = "linear"
    /\ chain[1].direction = "inverse"
    /\ chain[2].type = "lutFile"
    /\ chain[2].interpolation = "tetrahedral"
    /\ chain[2].direction = "forward"
    /\ \E i \in DOMAIN renders :
           /\ renders[i].fn = "generate_3d_LUT_from_CTL"
           /\ renders[i].path = chain[2].path

\* C12: the from_reference_transforms of a ColorSpace built from a look entry
\* with a transformCTL, or from an output entry with a transformCTL, is the shaper
\* LUT step (linear, inverse) and then the rendered 3D LUT step (tetrahedral,
\* forward).
C12_ForwardChain ==
    /\ \A k \in 1..Len(sorted_LMTs) :
           (/\ LmtCalled(k)
            /\ "transformCTL" \in DOMAIN sorted_LMTs[k][2]
            /\ Len(LookSpaces) >= k)
               => ShaperThenLut3D(LookSpaces[k].from_reference_transforms)
    /\ \A k \in 1..Len(sorted_odts) :
           (OdtCalled(k) /\ "transformCTL" \in DOMAIN sorted_odts[k][2])
               => \A p \in OdtPlaces(k) :
                      Len(odts) >= p => ShaperThenLut3D(odts[p].from_reference_transforms)

C12_Witness ==
    /\ pc = "done"
    /\ \E k \in 1..Len(sorted_LMTs) :
           "transformCTL" \in DOMAIN sorted_LMTs[k][2] /\ Len(LookSpaces) >= k
    /\ \E k \in 1..Len(sorted_odts) :
           /\ "transformCTL" \in DOMAIN sorted_odts[k][2]
           /\ Cardinality(OdtPlaces(k)) = 2
           /\ \A p \in OdtPlaces(k) : Len(odts[p].from_reference_transforms) = 2

\* The renderer has failed in this run.
RendererFailed == result.exc = "RendererError"

\* C13: when a renderer invocation fails, the run ends there: it comes to the
\* exception and to no bundle, the failing builder's ColorSpace is not appended,
\* and from then on no builder runs and the renderer is not invoked again.
C13_RendererFailureEndsRun ==
    [][/\ (~RendererFailed /\ RendererFailed') =>
              /\ pc' = "raised"
              /\ result'.status = "raised"
              /\ result'.colorspaces = <<>>
              /\ result'.displays = EmptyDict
              /\ UNCHANGED <<colorspaces, lmts, odts, displays>>
       /\ RendererFailed =>
              UNCHANGED <<pc, result, renders, files, colorspaces, lmts, odts, displays>>]_vars

C13_Witness ==
    /\ RendererFailed
    /\ pc = "raised"
    /\ result.raised_in = "create_ACES_RRT_plus_ODT"
    /\ Len(OutputSpaces) >= 1
    /\ Len(renders) >= 8

\* The tolerance of the boundary: the rounding of two values, in units of YDen.
Tolerance == 2

Abs(n) == IF n < 0 THEN -n ELSE n

\* C14: cid_to_rle gives 0.6 itself to the interpolated branch and every input
\* above 0.6 to the affine branch, and at 0.6 the value of the interpolated
\* branch and that of the affine branch agree within the tolerance.
C14_BoundaryContinuous ==
    rle # NoValue =>
        /\ cid <= LUT_1D_xp[11] => rle.branch = "interpolate_1D"
        /\ cid > LUT_1D_xp[11] => rle.branch = "affine"
        /\ cid = LUT_1D_xp[11] =>
               /\ rle.value = LUT_1D_fp[11]
               /\ Abs(rle.value - Affine(cid)) <= Tolerance

C14_Witness ==
    /\ cid = LUT_1D_xp[11]
    /\ rle.branch = "interpolate_1D"

\* The ColorSpace create_ADX built for the bit depth, once it is in the collection.
ADXSpaces == {i \in DOMAIN colorspaces : colorspaces[i].family = "ADX"}

\* The step maps the code value (of max_code) to density 0 on channel c: with
\* the quotients taken as the rationals they denote, scale * code / max_code is
\* -offset, that is scale's num * code * offset's den / scale's den is
\* -offset's num * max_code, with no remainder.
MapsToZero(step, c, code, max_code) ==
    LET s == step.matrix[5 * (c - 1) + 1]
        o == step.offset[c]
    IN MulDivMod(s[1] * code, o[2], s[2]) = <<(-o[1]) * max_code, 0>>

\* The first step of to_reference_transforms is the diagonal matrix of the
\* scale, with the offset, and the legal-range code maps to density 0.
AdxStepIs(cs, scale, offset, code, max_code) ==
    LET step == cs.to_reference_transforms[1]
    IN /\ step.type = "matrix"
       /\ step.direction = "forward"
       /\ \A i \in 1..16 :
              step.matrix[i] = (IF i \in {1, 6, 11} THEN scale
                                ELSE IF i = 16 THEN <<1, 1>> ELSE <<0, 1>>)
       /\ step.offset = <<offset, offset, offset, <<0, 1>>>>
       /\ \A c \in 1..3 : MapsToZero(step, c, code, max_code)

\* C15: the first step of ADX10 is the diagonal matrix of scale 1023/500 with
\* offset -95/500, under which the code 95 of 1023 is density 0; that of ADX16
\* has scale 65535/8000 and offset -1520/8000, under which the code 1520 of
\* 65535 is density 0; alpha has scale 1 and offset 0 in both.
C15_AdxMatrixOffset ==
    \A i \in ADXSpaces :
        /\ colorspaces[i].name = <<"ADX", "10">> =>
               AdxStepIs(colorspaces[i], <<1023, 500>>, <<-95, 500>>, 95, 1023)
        /\ colorspaces[i].name = <<"ADX", "16">> =>
               AdxStepIs(colorspaces[i], <<65535, 8000>>, <<-1520, 8000>>, 1520, 65535)

C15_Witness ==
    {colorspaces[i].name : i \in ADXSpaces} = {<<"ADX", "10">>, <<"ADX", "16">>}

\* The 3D renders of this run made for the output transforms.
OdtRenders3D ==
    {i \in DOMAIN renders : renders[i].fn = "generate_3d_LUT_from_CTL"} \ LookRenders3D

\* The render is for a ' - Full' variant: its LUT is named after the variant.
ForFullVariant(i) == \E t \in DOMAIN renders[i].path : renders[i].path[t] = " - Full"

\* C16: every 3D render made for an output transform is given legalRange 0 when
\* it is for a ' - Full' variant, and legalRange 1 when it is for a ' - Legal'
\* variant or for an entry with one, unsuffixed, variant.
C16_LegalRangeAtRender ==
    \A i \in OdtRenders3D :
        /\ "legalRange" \in DOMAIN renders[i].params
        /\ renders[i].params["legalRange"] = (IF ForFullVariant(i) THEN 0 ELSE 1)

C16_Witness ==
    \E i, j, k \in OdtRenders3D :
        /\ i < j /\ j < k
        /\ \E t \in DOMAIN renders[i].path : renders[i].path[t] = " - Legal"
        /\ ForFullVariant(j)
        /\ ~ForFullVariant(k)
        /\ \A t \in DOMAIN renders[k].path : renders[k].path[t] # " - Legal"

\* C17: no step of create_lmts or create_odts changes an entry of lmt_info or
\* odt_info: the legalRange of a variant is written to the variant's copy alone.
C17_RegistriesUnchanged == [][lmt_info' = lmt_info /\ odt_info' = odt_info]_vars

C17_Witness ==
    /\ OdtsReturned
    /\ Len(LookSpaces) >= 1
    /\ \E k \in 1..Len(sorted_odts) :
           /\ sorted_odts[k][1] \in DualRangeODTs
           /\ "legalRange" \in DOMAIN sorted_odts[k][2]
           /\ sorted_odts[k][2]["legalRange"] = 0
    /\ \E k \in 1..Len(sorted_odts) : "legalRange" \notin DOMAIN sorted_odts[k][2]
    /\ \E i, j \in OdtRenders3D :
           renders[i].params["legalRange"] = 1 /\ renders[j].params["legalRange"] = 0

====
